---- MODULE Spec2Model ----
(***************************************************************************)
(* Serial data logger (src/main.go).                                       *)
(*                                                                         *)
(* Two goroutines share the package-level variables writer and file:       *)
(*   - main: opens the port, creates the CSV file, starts checkKeys and    *)
(*     then loops  s.Read -> time.Now -> writer.Write -> writer.Flush;     *)
(*     every error ends in log.Fatalf (print, then os.Exit(1)).            *)
(*   - checkKeys: loops over readChar (MakeRaw, deferred Restore, one      *)
(*     byte from stdin) and ends the process with os.Exit(0) on Ctrl+X     *)
(*     (close + remove) or on ESC followed by c/C (flush + close).         *)
(* There is no lock and no channel between them: every statement of one    *)
(* goroutine may interleave with every statement of the other.  os.Exit    *)
(* runs no deferred call.  A program counter names the statement that the  *)
(* goroutine executes next.                                                *)
(*                                                                         *)
(* csv.Writer wraps a bufio.Writer: Write appends the encoded record to    *)
(* the buffer, Flush copies the buffer to the file and then resets the     *)
(* buffer length; a failed copy (file closed) makes the writer's error     *)
(* sticky, and a later Write returns it.  Flush is modelled in these two   *)
(* steps so that the unsynchronised Flush of checkKeys and Write/Flush of  *)
(* main produce the lost and the duplicated records of the data race.      *)
(* A write to the open file is taken to succeed; the failures modelled are  *)
(* those of OpenPort, os.Create, s.Read, MakeRaw, os.Remove and of a write  *)
(* to the closed file.                                                     *)
(***************************************************************************)
EXTENDS Integers, Sequences, FiniteSets, TLC

\* ---- bounds of the model ----
MaxReads == 2
MaxKeys == 4
MaxClock == 2
TicksPerMs == 2

\* ---- program constants ----
CtrlX == 24
Esc == 27
LowerC == 99
UpperC == 67

\* bytes the terminal can deliver: the four above and 'x' (120), which stands
\* for every byte checkKeys has no branch for (among them the zero byte that
\* readChar returns when os.Stdin.Read fails, its error being ignored)
KeyBytes == {CtrlX, Esc, LowerC, UpperC, 120}

\* the chunks the device delivers, one per serial read, in this order (and
\* again from the start when the reads outnumber them)
Chunks == <<"A", "BC", "D">>

VARIABLES
  mainPc,            \* statement main executes next
  keyPc,             \* statement checkKeys/readChar executes next
  keyStage,          \* call site of the running readChar: "first" (line 112) or "second" (line 125)
  key,               \* byte returned by the last readChar
  fileNonNil,        \* file != nil && writer != nil (assigned together, line 174)
  fileExists,        \* the CSV file is present on the medium
  fileOpen,          \* the file descriptor is open
  fileContent,       \* records that reached the file, in order
  wbuf,              \* records buffered in the csv/bufio writer
  werr,              \* sticky error of the bufio writer
  exitWithoutSaving, \* the global flag of line 35
  raw,               \* the terminal is in raw mode
  exited,            \* os.Exit has been called
  exitCode,          \* its argument
  out,               \* messages printed (stdout and log)
  mainErr,           \* message of the pending log.Fatalf of main
  data,              \* main's local: the chunk of the current iteration
  currentTime,       \* main's local: its formatted timestamp
  clock,             \* wall clock when last read, in units of 1/TicksPerMs millisecond
  \* history variables (observations, not program state)
  keys,              \* bytes consumed from stdin, in order
  reads,             \* chunks returned by successful serial reads, in order
  appends,           \* number of writer.Write calls that returned nil
  closes,            \* file.Close invocations, tagged by their path
  removes,           \* os.Remove invocations, each with its outcome
  firstSignal,       \* which terminal signal was observed first
  readsAtSignal,     \* Len(reads) when the key sequence was recognised
  appendsAtSignal,   \* appends when the key sequence was recognised
  lenAtClose         \* Len(fileContent) when file.Close was invoked

vars == <<mainPc, keyPc, keyStage, key, fileNonNil, fileExists, fileOpen,
          fileContent, wbuf, werr, exitWithoutSaving, raw, exited, exitCode,
          out, mainErr, data, currentTime, clock, keys, reads, appends,
          closes, lenAtClose, removes, firstSignal, readsAtSignal, appendsAtSignal>>

mainVars == <<mainPc, mainErr, data, currentTime, reads, appends>>
keyVars == <<keyPc, keyStage, key, keys, exitWithoutSaving, raw>>
fileVars == <<fileNonNil, fileExists, fileOpen, fileContent, wbuf, werr, closes, lenAtClose, removes>>
exitVars == <<exited, exitCode>>

\* a format that keeps the fraction of the millisecond instead of the millisecond
FormatTime_Fraction(t) == t % TicksPerMs

\* time.Now().Format("2006-01-02 15:04:05.000"): truncation to the millisecond
FormatTime(t) == t \div TicksPerMs

\* the payload column of a sequence of records
PayloadsOf(recs) == [i \in 1..Len(recs) |-> recs[i][2]]

Init ==
  /\ mainPc = "openPort"
  /\ keyPc = "notStarted"
  /\ keyStage = "first"
  /\ key = 120
  /\ fileNonNil = FALSE
  /\ fileExists = FALSE
  /\ fileOpen = FALSE
  /\ fileContent = <<>>
  /\ wbuf = <<>>
  /\ werr = FALSE
  /\ exitWithoutSaving = FALSE
  /\ raw = FALSE
  /\ exited = FALSE
  /\ exitCode = 0
  /\ out = {}
  /\ mainErr = ""
  /\ data = ""
  /\ currentTime = 0
  /\ clock = 0
  /\ keys = <<>>
  /\ reads = <<>>
  /\ appends = 0
  /\ closes = <<>>
  /\ removes = <<>>
  /\ firstSignal = "none"
  /\ readsAtSignal = 0
  /\ appendsAtSignal = 0
  /\ lenAtClose = 0

\* the first terminal signal stays; later ones do not overwrite it
Signal(s) == IF firstSignal = "none" THEN s ELSE firstSignal

\* ------------------------------------------------------------------------
\* main goroutine
\* ------------------------------------------------------------------------

\* OpenPort with the failure only noted (a log.Printf for the log.Fatalf):
\* main goes on to create the file
OpenPort_ErrorIgnored ==
  /\ ~exited /\ mainPc = "openPort"
  /\ \E ok \in BOOLEAN :
       /\ mainPc' = "createFile"
       /\ mainErr' = IF ok THEN mainErr ELSE "Failed to open COM port"
       /\ firstSignal' = IF ok THEN firstSignal ELSE Signal("error")
  /\ UNCHANGED <<data, currentTime, reads, appends, keyVars, fileVars, exitVars,
                 out, clock, readsAtSignal, appendsAtSignal>>

\* s, err := serial.OpenPort(c); if err != nil { log.Fatalf(...) }
OpenPort ==
  /\ ~exited /\ mainPc = "openPort"
  /\ \E ok \in BOOLEAN :
       IF ok
       THEN /\ mainPc' = "createFile"
            /\ UNCHANGED <<mainErr, firstSignal>>
       ELSE /\ mainPc' = "fatalf"
            /\ mainErr' = "Failed to open COM port"
            /\ firstSignal' = Signal("error")
  /\ UNCHANGED <<data, currentTime, reads, appends, keyVars, fileVars, exitVars,
                 out, clock, readsAtSignal, appendsAtSignal>>

\* CreateCSVFile with ":=" for "=": the results go to new locals of main and
\* the package-level file and writer stay nil
CreateCSVFile_Shadowed ==
  /\ ~exited /\ mainPc = "createFile"
  /\ \E ok \in BOOLEAN :
       IF ok
       THEN /\ mainPc' = "goKeys"
            /\ fileExists' = TRUE
            /\ fileOpen' = TRUE
            /\ UNCHANGED <<mainErr, firstSignal>>
       ELSE /\ mainPc' = "fatalf"
            /\ mainErr' = "Failed to create CSV file"
            /\ firstSignal' = Signal("error")
            /\ UNCHANGED <<fileExists, fileOpen>>
  /\ UNCHANGED <<data, currentTime, reads, appends, keyVars, fileNonNil,
                 fileContent, wbuf, werr, closes, lenAtClose, removes, exitVars,
                 out, clock, readsAtSignal, appendsAtSignal>>

\* file, writer, err = createCSVFile(); if err != nil { log.Fatalf(...) }
CreateCSVFile ==
  /\ ~exited /\ mainPc = "createFile"
  /\ \E ok \in BOOLEAN :
       IF ok
       THEN /\ mainPc' = "goKeys"
            /\ fileNonNil' = TRUE
            /\ fileExists' = TRUE
            /\ fileOpen' = TRUE
            /\ UNCHANGED <<mainErr, firstSignal>>
       ELSE /\ mainPc' = "fatalf"
            /\ mainErr' = "Failed to create CSV file"
            /\ firstSignal' = Signal("error")
            /\ UNCHANGED <<fileNonNil, fileExists, fileOpen>>
  /\ UNCHANGED <<data, currentTime, reads, appends, keyVars, fileContent, wbuf,
                 werr, closes, lenAtClose, removes, exitVars, out, clock, readsAtSignal, appendsAtSignal>>

\* go checkKeys()
GoCheckKeys ==
  /\ ~exited /\ mainPc = "goKeys"
  /\ mainPc' = "read"
  /\ keyPc' = "makeRaw"
  /\ keyStage' = "first"
  /\ UNCHANGED <<mainErr, data, currentTime, reads, appends, key, keys,
                 exitWithoutSaving, raw, fileVars, exitVars, out, clock,
                 firstSignal, readsAtSignal, appendsAtSignal>>

\* n, err := s.Read(buf) returned nil; data := string(buf[:n])
SerialReadOk ==
  /\ ~exited /\ mainPc = "read"
  /\ Len(reads) < MaxReads
  /\ \E p \in {Chunks[(Len(reads) % Len(Chunks)) + 1]} :
       /\ data' = p
       /\ reads' = Append(reads, p)
  /\ mainPc' = "stamp"
  /\ UNCHANGED <<mainErr, currentTime, appends, keyVars, fileVars, exitVars,
                 out, clock, firstSignal, readsAtSignal, appendsAtSignal>>

\* n, err := s.Read(buf) returned an error
SerialReadErr ==
  /\ ~exited /\ mainPc = "read"
  /\ mainPc' = "fatalf"
  /\ mainErr' = "Failed to read from serial port"
  /\ firstSignal' = Signal("error")
  /\ UNCHANGED <<data, currentTime, reads, appends, keyVars, fileVars, exitVars,
                 out, clock, readsAtSignal, appendsAtSignal>>

\* currentTime := time.Now().Format(...): the clock has advanced by any amount
\* since it was last looked at (it is looked at nowhere else)
Stamp ==
  /\ ~exited /\ mainPc = "stamp"
  /\ \E t \in clock..MaxClock :
       /\ clock' = t
       /\ currentTime' = FormatTime(t)
  /\ mainPc' = "write"
  /\ UNCHANGED <<mainErr, data, reads, appends, keyVars, fileVars, exitVars,
                 out, firstSignal, readsAtSignal, appendsAtSignal>>

\* err = writer.Write([]string{currentTime, data}); if err != nil { log.Fatalf(...) }
WriterWrite ==
  /\ ~exited /\ mainPc = "write"
  /\ IF werr
     THEN /\ mainPc' = "fatalf"
          /\ mainErr' = "Failed to write to CSV"
          /\ firstSignal' = Signal("error")
          /\ UNCHANGED <<wbuf, appends>>
     ELSE /\ wbuf' = Append(wbuf, <<currentTime, data>>)
          /\ appends' = appends + 1
          /\ mainPc' = "flush"
          /\ UNCHANGED <<mainErr, firstSignal>>
  /\ UNCHANGED <<data, currentTime, reads, keyVars, fileNonNil, fileExists,
                 fileOpen, fileContent, werr, closes, lenAtClose, removes, exitVars, out,
                 clock, readsAtSignal, appendsAtSignal>>

\* bufio.Writer.Flush, first half: copy the buffer to the file.  Returns at
\* once on a sticky error or an empty buffer; a closed file sets the error.
FlushCopy(done, reset) ==
  IF werr \/ wbuf = <<>>
  THEN /\ UNCHANGED <<fileContent, werr>>
       /\ done
  ELSE IF ~fileOpen
  THEN /\ werr' = TRUE
       /\ UNCHANGED fileContent
       /\ done
  ELSE /\ fileContent' = fileContent \o wbuf
       /\ UNCHANGED werr
       /\ reset

\* writer.Flush() of the acquisition loop, copy
MainFlush ==
  /\ ~exited /\ mainPc = "flush"
  /\ FlushCopy(mainPc' = "read", mainPc' = "flushReset")
  /\ UNCHANGED <<mainErr, data, currentTime, reads, appends, keyVars,
                 fileNonNil, fileExists, fileOpen, wbuf, closes, lenAtClose, removes,
                 exitVars, out, clock, firstSignal, readsAtSignal, appendsAtSignal>>

\* writer.Flush() of the acquisition loop, buffer length reset
MainFlushReset ==
  /\ ~exited /\ mainPc = "flushReset"
  /\ wbuf' = <<>>
  /\ mainPc' = "read"
  /\ UNCHANGED <<mainErr, data, currentTime, reads, appends, keyVars,
                 fileNonNil, fileExists, fileOpen, fileContent, werr, closes, lenAtClose,
                 removes, exitVars, out, clock, firstSignal, readsAtSignal, appendsAtSignal>>

\* log.Fatalf, first half: print the message
MainFatalPrint ==
  /\ ~exited /\ mainPc = "fatalf"
  /\ out' = out \cup {mainErr}
  /\ mainPc' = "exit1"
  /\ UNCHANGED <<mainErr, data, currentTime, reads, appends, keyVars, fileVars,
                 exitVars, clock, firstSignal, readsAtSignal, appendsAtSignal>>

\* log.Fatalf, second half: os.Exit(1); no deferred call runs
MainFatalExit ==
  /\ ~exited /\ mainPc = "exit1"
  /\ exited' = TRUE
  /\ exitCode' = 1
  /\ UNCHANGED <<mainVars, keyVars, fileVars, out, clock, firstSignal,
                 readsAtSignal, appendsAtSignal>>

\* ------------------------------------------------------------------------
\* checkKeys goroutine (readChar inlined at its two call sites)
\* ------------------------------------------------------------------------

\* oldState, err := term.MakeRaw(fd); if err != nil { log.Fatal(err) }
MakeRaw ==
  /\ ~exited /\ keyPc = "makeRaw"
  /\ \E ok \in BOOLEAN :
       IF ok
       THEN /\ raw' = TRUE
            /\ keyPc' = "stdinRead"
            /\ UNCHANGED firstSignal
       ELSE /\ keyPc' = "kFatal"
            /\ firstSignal' = Signal("error")
            /\ UNCHANGED raw
  /\ UNCHANGED <<mainVars, keyStage, key, keys, exitWithoutSaving, fileVars,
                 exitVars, out, clock, readsAtSignal, appendsAtSignal>>

\* os.Stdin.Read(buf[:]): blocks until the terminal delivers one byte
StdinRead ==
  /\ ~exited /\ keyPc = "stdinRead"
  /\ Len(keys) < MaxKeys
  /\ \E b \in KeyBytes :
       /\ key' = b
       /\ keys' = Append(keys, b)
  /\ keyPc' = "restore"
  /\ UNCHANGED <<mainVars, keyStage, exitWithoutSaving, raw, fileVars, exitVars,
                 out, clock, firstSignal, readsAtSignal, appendsAtSignal>>

\* deferred term.Restore(fd, oldState), run when readChar returns
Restore ==
  /\ ~exited /\ keyPc = "restore"
  /\ raw' = FALSE
  /\ keyPc' = "dispatch"
  /\ UNCHANGED <<mainVars, keyStage, key, keys, exitWithoutSaving, fileVars,
                 exitVars, out, clock, firstSignal, readsAtSignal, appendsAtSignal>>

\* DispatchFirst with a commit letter accepted without its ESC lead-in
DispatchFirst_PlainC(k) ==
  IF k = CtrlX THEN "discard"
  ELSE IF k = Esc THEN "second"
  ELSE IF k = LowerC \/ k = UpperC THEN "commit"
  ELSE "first"

\* if key == "\x18" {...} else if key == "\x1b" {...}: where the byte of the
\* first readChar of an iteration leads
DispatchFirst(k) ==
  IF k = CtrlX THEN "discard"
  ELSE IF k = Esc THEN "second"
  ELSE "first"

\* DispatchSecond with the unmatched byte dispatched again as a first byte
DispatchSecond_Redispatch(k) ==
  IF k = LowerC \/ k = UpperC THEN "commit" ELSE DispatchFirst(k)

\* DispatchSecond with the upper-case comparison forgotten
DispatchSecond_LowerOnly(k) ==
  IF k = LowerC THEN "commit" ELSE "first"

\* if nextKey == "c" || nextKey == "C" {...}: where the byte after ESC leads
DispatchSecond(k) ==
  IF k = LowerC \/ k = UpperC THEN "commit" ELSE "first"

\* the branch of checkKeys taken on the byte just read
Dispatch ==
  /\ ~exited /\ keyPc = "dispatch"
  /\ LET to == IF keyStage = "first" THEN DispatchFirst(key) ELSE DispatchSecond(key)
     IN  IF to \in {"discard", "commit"}
         THEN /\ keyPc' = IF to = "discard" THEN "dPrint" ELSE "cPrint"
              /\ firstSignal' = Signal("key")
              /\ readsAtSignal' = Len(reads)
              /\ appendsAtSignal' = appends
              /\ UNCHANGED keyStage
         ELSE /\ keyPc' = "makeRaw"
              /\ keyStage' = to
              /\ UNCHANGED <<firstSignal, readsAtSignal, appendsAtSignal>>
  /\ UNCHANGED <<mainVars, key, keys, exitWithoutSaving, raw, fileVars, exitVars,
                 out, clock>>

\* fmt.Println("\nCtrl+X pressed. ..."); exitWithoutSaving = true
KeyDiscardPrint ==
  /\ ~exited /\ keyPc = "dPrint"
  /\ out' = out \cup {"Ctrl+X pressed"}
  /\ exitWithoutSaving' = TRUE
  /\ keyPc' = "dClose"
  /\ UNCHANGED <<mainVars, keyStage, key, keys, raw, fileVars, exitVars, clock,
                 firstSignal, readsAtSignal, appendsAtSignal>>

\* if file != nil { file.Close() ...
KeyDiscardClose ==
  /\ ~exited /\ keyPc = "dClose"
  /\ IF fileNonNil
     THEN /\ fileOpen' = FALSE
          /\ closes' = Append(closes, "discard")
          /\ lenAtClose' = Len(fileContent)
          /\ keyPc' = "dRemove"
     ELSE /\ keyPc' = "dExit"
          /\ UNCHANGED <<fileOpen, closes, lenAtClose>>
  /\ UNCHANGED <<mainVars, keyStage, key, keys, exitWithoutSaving, raw,
                 fileNonNil, fileExists, fileContent, wbuf, werr, removes,
                 exitVars, out, clock, firstSignal, readsAtSignal, appendsAtSignal>>

\* ... os.Remove(file.Name()) }: the result is not looked at
KeyDiscardRemove ==
  /\ ~exited /\ keyPc = "dRemove"
  /\ \E ok \in BOOLEAN :
       /\ removes' = Append(removes, ok)
       /\ fileExists' = IF ok THEN FALSE ELSE fileExists
  /\ keyPc' = "dExit"
  /\ UNCHANGED <<mainVars, keyStage, key, keys, exitWithoutSaving, raw,
                 fileNonNil, fileOpen, fileContent, wbuf, werr, closes, lenAtClose,
                 exitVars, out, clock, firstSignal, readsAtSignal, appendsAtSignal>>

\* the Ctrl+X branch without its os.Exit(0): checkKeys loops on
KeyDiscardExit_FallThrough ==
  /\ ~exited /\ keyPc = "dExit"
  /\ keyPc' = "makeRaw"
  /\ keyStage' = "first"
  /\ UNCHANGED <<mainVars, key, keys, exitWithoutSaving, raw, fileVars,
                 exitVars, out, clock, firstSignal, readsAtSignal, appendsAtSignal>>

\* os.Exit(0) of the Ctrl+X branch
KeyDiscardExit ==
  /\ ~exited /\ keyPc = "dExit"
  /\ exited' = TRUE
  /\ exitCode' = 0
  /\ UNCHANGED <<mainVars, keyVars, fileVars, out, clock, firstSignal,
                 readsAtSignal, appendsAtSignal>>

\* fmt.Println("\nAlt+C pressed. ...")
KeyCommitPrint ==
  /\ ~exited /\ keyPc = "cPrint"
  /\ out' = out \cup {"Alt+C pressed"}
  /\ keyPc' = "cFlush"
  /\ UNCHANGED <<mainVars, keyStage, key, keys, exitWithoutSaving, raw,
                 fileVars, exitVars, clock, firstSignal, readsAtSignal, appendsAtSignal>>

\* the Alt+C branch with its writer.Flush() left out
KeyCommitFlush_Skipped ==
  /\ ~exited /\ keyPc = "cFlush"
  /\ keyPc' = IF fileNonNil THEN "cClose" ELSE "cExit"
  /\ UNCHANGED <<mainVars, keyStage, key, keys, exitWithoutSaving, raw,
                 fileVars, exitVars, out, clock, firstSignal, readsAtSignal,
                 appendsAtSignal>>

\* if writer != nil && file != nil { writer.Flush() ... : copy
KeyCommitFlush ==
  /\ ~exited /\ keyPc = "cFlush"
  /\ IF fileNonNil
     THEN FlushCopy(keyPc' = "cClose", keyPc' = "cFlushReset")
     ELSE /\ keyPc' = "cExit"
          /\ UNCHANGED <<fileContent, werr>>
  /\ UNCHANGED <<mainVars, keyStage, key, keys, exitWithoutSaving, raw,
                 fileNonNil, fileExists, fileOpen, wbuf, closes, lenAtClose, removes,
                 exitVars, out, clock, firstSignal, readsAtSignal, appendsAtSignal>>

\* writer.Flush() of the Alt+C branch: buffer length reset
KeyCommitFlushReset ==
  /\ ~exited /\ keyPc = "cFlushReset"
  /\ wbuf' = <<>>
  /\ keyPc' = "cClose"
  /\ UNCHANGED <<mainVars, keyStage, key, keys, exitWithoutSaving, raw,
                 fileNonNil, fileExists, fileOpen, fileContent, werr, closes, lenAtClose,
                 removes, exitVars, out, clock, firstSignal, readsAtSignal, appendsAtSignal>>

\* ... file.Close() }
KeyCommitClose ==
  /\ ~exited /\ keyPc = "cClose"
  /\ fileOpen' = FALSE
  /\ closes' = Append(closes, "commit")
  /\ lenAtClose' = Len(fileContent)
  /\ keyPc' = "cExit"
  /\ UNCHANGED <<mainVars, keyStage, key, keys, exitWithoutSaving, raw,
                 fileNonNil, fileExists, fileContent, wbuf, werr, removes,
                 exitVars, out, clock, firstSignal, readsAtSignal, appendsAtSignal>>

\* the Alt+C branch without its os.Exit(0): checkKeys loops on
KeyCommitExit_FallThrough ==
  /\ ~exited /\ keyPc = "cExit"
  /\ keyPc' = "makeRaw"
  /\ keyStage' = "first"
  /\ UNCHANGED <<mainVars, key, keys, exitWithoutSaving, raw, fileVars,
                 exitVars, out, clock, firstSignal, readsAtSignal,
                 appendsAtSignal>>

\* os.Exit(0) of the Alt+C branch
KeyCommitExit ==
  /\ ~exited /\ keyPc = "cExit"
  /\ exited' = TRUE
  /\ exitCode' = 0
  /\ UNCHANGED <<mainVars, keyVars, fileVars, out, clock, firstSignal,
                 readsAtSignal, appendsAtSignal>>

\* log.Fatal(err) of readChar, first half: print
KeyFatalPrint ==
  /\ ~exited /\ keyPc = "kFatal"
  /\ out' = out \cup {"MakeRaw failed"}
  /\ keyPc' = "kExit1"
  /\ UNCHANGED <<mainVars, keyStage, key, keys, exitWithoutSaving, raw,
                 fileVars, exitVars, clock, firstSignal, readsAtSignal, appendsAtSignal>>

\* log.Fatal(err) of readChar, second half: os.Exit(1)
KeyFatalExit ==
  /\ ~exited /\ keyPc = "kExit1"
  /\ exited' = TRUE
  /\ exitCode' = 1
  /\ UNCHANGED <<mainVars, keyVars, fileVars, out, clock, firstSignal,
                 readsAtSignal, appendsAtSignal>>

\* ------------------------------------------------------------------------
Next ==
  \/ OpenPort
  \/ CreateCSVFile
  \/ GoCheckKeys
  \/ SerialReadOk
  \/ SerialReadErr
  \/ Stamp
  \/ WriterWrite
  \/ MainFlush
  \/ MainFlushReset
  \/ MainFatalPrint
  \/ MainFatalExit
  \/ MakeRaw
  \/ StdinRead
  \/ Restore
  \/ Dispatch
  \/ KeyDiscardPrint
  \/ KeyDiscardClose
  \/ KeyDiscardRemove
  \/ KeyDiscardExit
  \/ KeyCommitPrint
  \/ KeyCommitFlush
  \/ KeyCommitFlushReset
  \/ KeyCommitClose
  \/ KeyCommitExit
  \/ KeyFatalPrint
  \/ KeyFatalExit

Spec == Init /\ [][Next]_vars

\* the steps checkKeys takes on its own, without waiting for the terminal
KeyWatcherStep ==
  \/ MakeRaw
  \/ Restore
  \/ Dispatch
  \/ KeyDiscardPrint
  \/ KeyDiscardClose
  \/ KeyDiscardRemove
  \/ KeyDiscardExit
  \/ KeyCommitPrint
  \/ KeyCommitFlush
  \/ KeyCommitFlushReset
  \/ KeyCommitClose
  \/ KeyCommitExit
  \/ KeyFatalPrint
  \/ KeyFatalExit

\* The Go scheduler runs a runnable goroutine eventually: the key watcher is
\* never starved of a step it can take.  Nothing is assumed of main (a silent
\* device blocks it in s.Read for ever) nor of the terminal.
LiveSpec == Spec /\ WF_vars(KeyWatcherStep)

\* The session on a silent device: s.Read never returns, so main takes no
\* step after it has started checkKeys; the key watcher runs as above.  No
\* entry is ever appended, so the writer's buffer stays empty and the flush
\* of the Alt+C branch returns without a buffer reset.
SilentNext ==
  \/ OpenPort
  \/ CreateCSVFile
  \/ GoCheckKeys
  \/ MainFatalPrint
  \/ MainFatalExit
  \/ StdinRead
  \/ MakeRaw
  \/ Restore
  \/ Dispatch
  \/ KeyDiscardPrint
  \/ KeyDiscardClose
  \/ KeyDiscardRemove
  \/ KeyDiscardExit
  \/ KeyCommitPrint
  \/ KeyCommitFlush
  \/ KeyCommitClose
  \/ KeyCommitExit
  \/ KeyFatalPrint
  \/ KeyFatalExit

SilentSpec == Init /\ [][SilentNext]_vars /\ WF_vars(KeyWatcherStep)

\* ------------------------------------------------------------------------
\* type correctness
\* ------------------------------------------------------------------------
TypeOK ==
  /\ mainPc \in {"openPort", "createFile", "goKeys", "read", "stamp", "write",
                 "flush", "flushReset", "fatalf", "exit1"}
  /\ keyPc \in {"notStarted", "makeRaw", "stdinRead", "restore", "dispatch",
                "dPrint", "dClose", "dRemove", "dExit", "cPrint", "cFlush",
                "cFlushReset", "cClose", "cExit", "kFatal", "kExit1"}
  /\ keyStage \in {"first", "second"}
  /\ key \in KeyBytes
  /\ exitCode \in {0, 1}
  /\ firstSignal \in {"none", "key", "error"}
  /\ Len(keys) <= MaxKeys /\ Len(reads) <= MaxReads

\* ------------------------------------------------------------------------
\* vocabulary of the properties
\* ------------------------------------------------------------------------

\* checkKeys has entered the Ctrl+X branch (lines 115-122)
DiscardRecognised == keyPc \in {"dPrint", "dClose", "dRemove", "dExit"}

\* checkKeys has entered the Alt+C branch (lines 127-133)
CommitRecognised == keyPc \in {"cPrint", "cFlush", "cFlushReset", "cClose", "cExit"}

\* the acquisition loop is on its log.Fatalf of line 192 or 203
AcquisitionFailed ==
  /\ mainPc \in {"fatalf", "exit1"}
  /\ mainErr \in {"Failed to read from serial port", "Failed to write to CSV"}

\* The watcher's reading of a byte history, stated on the history alone: byte
\* i is read "idle" (not as the byte after an escape) when it is the first
\* byte, or follows an idle byte that is neither ESC nor Ctrl+X, or follows
\* an idle ESC and a byte that did not complete the commit sequence.
RECURSIVE IdleAt(_, _)
IdleAt(s, i) ==
  IF i <= 1 THEN i = 1
  ELSE \/ IdleAt(s, i - 1) /\ s[i - 1] \notin {Esc, CtrlX}
       \/ i >= 3 /\ IdleAt(s, i - 2) /\ s[i - 2] = Esc /\ s[i - 1] \notin {LowerC, UpperC}

\* the history holds an idle ESC immediately followed by c or C
CommitSeqIn(s) ==
  \E i \in 1..(Len(s) - 1) : IdleAt(s, i) /\ s[i] = Esc /\ s[i + 1] \in {LowerC, UpperC}

\* ------------------------------------------------------------------------
\* properties
\* ------------------------------------------------------------------------

\* C1: whenever the process has exited after the record file was created,
\* file.Close has been invoked exactly once, whichever path ended the session.
C1_CloseExactlyOnce ==
  (exited /\ fileNonNil) => Len(closes) = 1

\* C2: the acquisition loop is never inside its append step (Write done, Flush
\* not finished) while the key watcher is inside its close step (Flush begun,
\* Close or Remove not finished).
C2_AppendCloseSerialized ==
  ~(mainPc \in {"flush", "flushReset"} /\ keyPc \in {"cFlushReset", "cClose", "dRemove"})

\* C3: after a commit, the record file holds exactly the chunks of the reads
\* that had returned when the commit sequence was recognised, one entry per
\* read, in read order.
C3_CommittedRecordComplete ==
  (exited /\ exitCode = 0 /\ CommitRecognised)
    => PayloadsOf(fileContent) = SubSeq(reads, 1, readsAtSignal)

\* C4: once the discard byte has been recognised and the process has exited,
\* no record file remains on the medium (stated for the executions in which
\* the discard byte was the first terminal signal, which the claim includes).
C4_DiscardLeavesNothing ==
  (exited /\ DiscardRecognised /\ firstSignal = "key") => ~fileExists

\* C5: the first terminal signal is authoritative: when a key sequence was
\* recognised before any fatal error was observed, the process exits with
\* code 0, so that the exit code is non-zero only when a fatal error came
\* first.
C5_FirstSignalAuthoritative ==
  (exited /\ firstSignal = "key") => exitCode = 0

\* C6: the record is never both committed and discarded: at most one
\* commit-close or discard-close is performed in the whole process lifetime.
C6_AtMostOneTerminalTransition ==
  /\ Len(closes) <= 1
  /\ Len(removes) <= 1
  /\ (removes # <<>> => closes = <<"discard">>)

\* C6 witness: a discard-close performed after earlier bytes were consumed.
C6_Witness ==
  exited /\ closes = <<"discard">> /\ Len(keys) >= 3

\* C7: the commit branch is entered if and only if the byte history holds an
\* idle ESC immediately followed by c or C (the bytes consumed but not yet
\* dispatched decide nothing yet).
C7_CommitIffEscThenC ==
  /\ CommitRecognised => CommitSeqIn(keys)
  /\ (CommitSeqIn(keys) /\ keyPc \notin {"restore", "dispatch"}) => CommitRecognised

\* C7 witness: ESC 'x' did not commit, the following ESC 'C' did.
C7_Witness ==
  CommitRecognised /\ keys = <<Esc, 120, Esc, UpperC>>

\* C8: when the last byte consumed was read idle and is not Ctrl+X, the
\* watcher is on neither terminal branch and the process has not ended with
\* code 0: that byte alone did not terminate the session.
C8_OnlyCtrlXTerminatesAlone ==
  (Len(keys) >= 1 /\ IdleAt(keys, Len(keys)) /\ keys[Len(keys)] # CtrlX)
    => /\ ~DiscardRecognised /\ ~CommitRecognised
       /\ exited => exitCode = 1

\* C8 witness: a lone 'c' has been dispatched and the watcher reads on.
C8_Witness ==
  ~exited /\ keys = <<LowerC>> /\ keyPc = "stdinRead" /\ keyStage = "first"

\* C9: whenever the process has ended, the terminal is out of raw mode.
C9_RawModeRestoredAtExit ==
  exited => ~raw

\* C10: when a serial read or a record append failed with no key sequence
\* recognised before it (and raw mode never failed), the process ends with a
\* non-zero code and the error has been reported.
C10_AcquisitionFailureExitsNonZero ==
  (exited /\ AcquisitionFailed /\ firstSignal = "error" /\ keyPc \notin {"kFatal", "kExit1"})
    => (exitCode = 1 /\ mainErr \in out)

\* C11: every Ctrl+X byte the watcher has consumed and dispatched put it on
\* the discard branch, whatever bytes preceded it.
C11_EveryCtrlXDiscards ==
  (Len(keys) >= 1 /\ keys[Len(keys)] = CtrlX /\ keyPc \notin {"restore", "dispatch"})
    => DiscardRecognised

\* C12: a byte other than c/C that follows an idle ESC is consumed and not
\* dispatched again: the watcher is back at its first call site and on no
\* terminal branch; so ESC ESC c leaves the session running, while
\* ESC x ESC c commits.
C12_SecondByteDropped ==
  /\ (/\ Len(keys) >= 2
      /\ IdleAt(keys, Len(keys) - 1)
      /\ keys[Len(keys) - 1] = Esc
      /\ keys[Len(keys)] \notin {LowerC, UpperC}
      /\ keyPc \notin {"restore", "dispatch"})
       => (keyStage = "first" /\ ~DiscardRecognised /\ ~CommitRecognised)
  /\ keys = <<Esc, Esc, LowerC>> => (~CommitRecognised /\ ~DiscardRecognised)
  /\ (keys = <<Esc, 120, Esc, LowerC>> /\ keyPc \notin {"restore", "dispatch"})
       => CommitRecognised

\* C12 witness: ESC ESC c has been dispatched and the watcher reads on.
C12_Witness ==
  ~exited /\ keys = <<Esc, Esc, LowerC>> /\ keyPc = "stdinRead" /\ keyStage = "first"

\* every message the program prints: lines 116, 128, 147, 169, 176, 192, 203
ProgramMessages ==
  {"Ctrl+X pressed", "Alt+C pressed", "MakeRaw failed", "Failed to open COM port",
   "Failed to create CSV file", "Failed to read from serial port", "Failed to write to CSV"}

\* C13: when the delete of a discard failed and the process has ended with
\* code 0, the failure has been logged: a message that is none of the
\* program's other messages has been printed.
C13_RemoveFailureLogged ==
  (exited /\ exitCode = 0 /\ removes = <<FALSE>>) => (out \ ProgramMessages) # {}

ReadIndex(p) == CHOOSE k \in 1..Len(Chunks) : Chunks[k] = p

\* C15: the entries of the record are in the arrival order of their reads with
\* non-decreasing timestamps, and the timestamp main holds when it appends is
\* the clock reading taken after the latest read returned.
C15_EntriesInArrivalOrder ==
  /\ \A i, j \in 1..Len(fileContent) :
       i < j => /\ fileContent[i][1] <= fileContent[j][1]
                /\ ReadIndex(fileContent[i][2]) <= ReadIndex(fileContent[j][2])
  /\ mainPc = "write" =>
       /\ currentTime = FormatTime(clock)
       /\ data = reads[Len(reads)]

\* C15 witness: two entries of two reads, the second with a later timestamp.
C15_Witness ==
  /\ Len(fileContent) >= 2
  /\ fileContent[1][1] < fileContent[2][1]
  /\ fileContent[1][2] = "A" /\ fileContent[2][2] = "BC"

\* C16: when opening the serial port failed, no record file is ever created,
\* neither the key watcher nor the acquisition loop ever starts, and the
\* process can only end with a non-zero code.
C16_OpenFailureStartsNothing ==
  mainErr = "Failed to open COM port" =>
    /\ mainPc \in {"fatalf", "exit1"}
    /\ ~fileNonNil /\ ~fileExists
    /\ keyPc = "notStarted"
    /\ reads = <<>> /\ appends = 0
    /\ exited => exitCode = 1

\* C16 witness: the process has ended on the failed open.
C16_Witness ==
  exited /\ mainErr = "Failed to open COM port" /\ mainErr \in out

\* C17: whenever the acquisition loop is at its serial read the writer holds
\* no unflushed entry, and after a fatal read error the record file left on
\* the medium holds exactly the chunks of the reads that succeeded.
C17_NothingBufferedAtRead ==
  /\ mainPc = "read" => wbuf = <<>>
  /\ (exited /\ fileExists /\ mainErr = "Failed to read from serial port")
       => PayloadsOf(fileContent) = reads

\* C18: checkKeys runs only after file and writer have been assigned, so the
\* nil guards of its two branches never skip: a discard has closed and tried
\* to delete the file, a commit has flushed and closed it.
C18_WatcherStartsAfterFile ==
  /\ keyPc # "notStarted" => fileNonNil
  /\ keyPc = "dExit" => (closes = <<"discard">> /\ Len(removes) = 1)
  /\ keyPc = "cExit" => closes = <<"commit">>

\* C18 witness: a commit ran its guarded flush and close.
C18_Witness ==
  exited /\ keyPc = "cExit" /\ closes = <<"commit">> /\ fileContent # <<>>

\* stdin has delivered to readChar a byte that completes a control sequence:
\* Ctrl+X at the first call site, or c/C at the second
TerminalKeyDelivered ==
  /\ keyPc \in {"restore", "dispatch"}
  /\ \/ keyStage = "first" /\ key = CtrlX
     \/ keyStage = "second" /\ key \in {LowerC, UpperC}

\* C19: once a discard byte or a commit sequence has been delivered to the
\* key watcher, the process eventually ends, whether or not the acquisition
\* loop ever takes another step (in SilentSpec it is blocked in s.Read for
\* ever; in LiveSpec it may run, fail or stop at any point).
C19_OperatorEndsSession ==
  TerminalKeyDelivered ~> exited

\* C19 witness: the process was ended by a commit while the acquisition loop
\* was still in its first serial read.
C19_Witness ==
  exited /\ exitCode = 0 /\ CommitRecognised /\ mainPc = "read" /\ reads = <<>>

====
